---- MODULE Spec2Model ----
(***************************************************************************)
(* Model of dashboard.py: the delivery/fleet analytics pipeline            *)
(* (load_and_prepare_data, the filter stage of main, calculate_kpis, the   *)
(* monthly summary and month-over-month deltas of main, and                *)
(* prepare_chart_data).                                                    *)
(*                                                                         *)
(* Floating point numbers are modelled as exact rationals extended with    *)
(* NaN and the two infinities, <<kind, numerator, denominator>>; rounding  *)
(* is not modelled.  Dates are <<year, month, day>>.  A missing cell of a  *)
(* CSV file (pandas NaN) in a text column is the string "NaN".             *)
(***************************************************************************)
EXTENDS Integers, Sequences, FiniteSets, TLC

VARIABLES
    deliveries_csv,     \* rows of deliveries.csv
    fleet_csv,          \* rows of fleet.csv
    pc,                 \* position of main
    read_status,        \* how the reads of deliveries.csv and fleet.csv ended
    error_shown,        \* st.error was called by the loader
    loaded_df,          \* the frame load_and_prepare_data returned
    df,                 \* the frame main works on (filtered in place)
    selected_city,
    selected_month,
    stages,             \* the downstream computations performed so far
    kpis,
    monthly_summary,
    mom_values,
    delay_by_city,
    cost_time_city,
    deliveries_per_vehicle_data,
    monthly_trend

vars == <<deliveries_csv, fleet_csv, pc, read_status, error_shown, loaded_df, df,
          selected_city, selected_month, stages, kpis, monthly_summary,
          mom_values, delay_by_city, cost_time_city,
          deliveries_per_vehicle_data, monthly_trend>>

---------------------------------------------------------------------------
(* Bounds of the model.                                                    *)

MaxRows == 2            \* rows of deliveries.csv in the pipeline inputs
MaxJoinRows == 2        \* rows of deliveries.csv in the join inputs
MaxFleet == 2           \* rows of fleet.csv in the join inputs

---------------------------------------------------------------------------
(* float64 arithmetic (numpy / pandas semantics, no exception on a zero    *)
(* denominator).                                                           *)

NaN == <<"nan", 0, 1>>
PosInf == <<"inf", 1, 1>>
NegInf == <<"inf", -1, 1>>

Abs(n) == IF n < 0 THEN -n ELSE n
Sign(n) == IF n < 0 THEN -1 ELSE IF n = 0 THEN 0 ELSE 1

RECURSIVE GCD(_, _)
GCD(a, b) == IF b = 0 THEN a ELSE GCD(b, a % b)

\* the rational n/d (d # 0) in lowest terms with a positive denominator
Rat(n, d) ==
    LET g == GCD(Abs(n), Abs(d))
        s == Sign(d)
    IN  <<"fin", (s * n) \div g, (s * d) \div g>>

Num(n) == <<"fin", n, 1>>
Zero == Num(0)

IsNaN(a) == a[1] = "nan"
IsInf(a) == a[1] = "inf"
IsFinite(a) == a[1] = "fin"
Infinity(s) == IF s < 0 THEN NegInf ELSE PosInf

FNeg(a) == IF IsNaN(a) THEN NaN ELSE <<a[1], -a[2], a[3]>>

FAdd(a, b) ==
    IF IsNaN(a) \/ IsNaN(b) THEN NaN
    ELSE IF IsInf(a) /\ IsInf(b) THEN (IF a[2] = b[2] THEN a ELSE NaN)
    ELSE IF IsInf(a) THEN a
    ELSE IF IsInf(b) THEN b
    ELSE Rat(a[2] * b[3] + b[2] * a[3], a[3] * b[3])

FSub(a, b) == FAdd(a, FNeg(b))

FMul(a, b) ==
    IF IsNaN(a) \/ IsNaN(b) THEN NaN
    ELSE IF IsInf(a) \/ IsInf(b)
         THEN (IF a[2] = 0 \/ b[2] = 0 THEN NaN
               ELSE Infinity(Sign(a[2]) * Sign(b[2])))
    ELSE Rat(a[2] * b[2], a[3] * b[3])

\* division that raises on a zero denominator would be Python's int / int;
\* numpy scalars and pandas columns divide as IEEE 754 does
FDiv(a, b) ==
    IF IsNaN(a) \/ IsNaN(b) THEN NaN
    ELSE IF IsInf(a) THEN (IF IsInf(b) THEN NaN
                           ELSE Infinity(a[2] * (IF b[2] < 0 THEN -1 ELSE 1)))
    ELSE IF IsInf(b) THEN Zero
    ELSE IF b[2] = 0 THEN (IF a[2] = 0 THEN NaN ELSE Infinity(a[2]))
    ELSE Rat(a[2] * b[3], a[3] * b[2])

Hundred == Num(100)

---------------------------------------------------------------------------
(* Series reductions (skipna = True, the pandas default).                  *)

RECURSIVE SumSeq(_)
SumSeq(s) == IF s = <<>> THEN Zero ELSE FAdd(Head(s), SumSeq(Tail(s)))

DropNaN(s) == SelectSeq(s, LAMBDA v : ~IsNaN(v))

SeriesSum(s) == SumSeq(DropNaN(s))

\* variant: the mean of no values taken as 0
SeriesMeanZeroOnEmpty(s) ==
    LET t == DropNaN(s)
    IN  IF t = <<>> THEN Zero ELSE FDiv(SumSeq(t), Num(Len(t)))

SeriesMean(s) ==
    LET t == DropNaN(s)
    IN  IF t = <<>> THEN NaN ELSE FDiv(SumSeq(t), Num(Len(t)))

Column(frame, f(_)) == [i \in 1..Len(frame) |-> f(frame[i])]

---------------------------------------------------------------------------
(* Calendar: the 'date' column after pd.to_datetime, month-end bins of     *)
(* resample('M') and the '%b %Y' label.                                    *)

IsLeap(y) == (y % 4 = 0 /\ y % 100 # 0) \/ y % 400 = 0

DaysInMonth(y, m) ==
    IF m = 2 THEN (IF IsLeap(y) THEN 29 ELSE 28)
    ELSE IF m \in {4, 6, 9, 11} THEN 30 ELSE 31

\* months since year 0: the calendar month a date lies in
MonthIndex(date) == date[1] * 12 + (date[2] - 1)

\* resample('M') labels a bin by the last day of its month
MonthEnd(idx) ==
    LET y == idx \div 12
        m == (idx % 12) + 1
    IN  <<y, m, DaysInMonth(y, m)>>

MonthAbbr ==
    <<"Jan", "Feb", "Mar", "Apr", "May", "Jun",
      "Jul", "Aug", "Sep", "Oct", "Nov", "Dec">>

Digits == <<"0", "1", "2", "3", "4", "5", "6", "7", "8", "9">>

RECURSIVE ToStr(_)
ToStr(n) == IF n < 10 THEN Digits[n + 1]
            ELSE ToStr(n \div 10) \o Digits[(n % 10) + 1]

\* variant: the label without the year ('%b')
StrftimeMonthOnly(date) == MonthAbbr[date[2]]

\* date.strftime('%b %Y')
Strftime(date) == MonthAbbr[date[2]] \o " " \o ToStr(date[1])

---------------------------------------------------------------------------
(* Inputs: the contents of the two CSV files.                              *)

Cities == {"Lagos", "Abuja"}

Dates == {<<2023, 1, 31>>, <<2024, 1, 31>>, <<2024, 2, 1>>}

\* the numeric cells of a delivery row with its vehicle
Profiles ==
    { [vehicle_id |-> "V1", planned_minutes |-> 30, actual_minutes |-> 30,
       on_time |-> 0, fuel_cost |-> 0, other_cost |-> 0, distance_km |-> 2],
      [vehicle_id |-> "V2", planned_minutes |-> 30, actual_minutes |-> 35,
       on_time |-> 1, fuel_cost |-> 10, other_cost |-> 10, distance_km |-> 2],
      [vehicle_id |-> "V3", planned_minutes |-> 30, actual_minutes |-> 40,
       on_time |-> 1, fuel_cost |-> 0, other_cost |-> 10, distance_km |-> 0] }

DeliveryRow(id, p, date, city, vehicle) ==
    [delivery_id |-> id, vehicle_id |-> vehicle, date |-> date, city |-> city,
     planned_minutes |-> p.planned_minutes, actual_minutes |-> p.actual_minutes,
     on_time |-> p.on_time, fuel_cost |-> p.fuel_cost,
     other_cost |-> p.other_cost, distance_km |-> p.distance_km]

VehicleRow(vehicle, city) == [vehicle_id |-> vehicle, city |-> city]

\* deliveries.csv for the pipeline: any profile, date and city per row
PipelineDeliveries ==
    UNION { { [i \in 1..n |-> DeliveryRow(i, c[i][1], c[i][2], c[i][3],
                                          c[i][1].vehicle_id)] :
              c \in [1..n -> Profiles \X Dates \X Cities] } : n \in 0..MaxRows }

\* fleet.csv for the pipeline: a registry with unique vehicle ids
Registry == <<VehicleRow("V1", "Kano"), VehicleRow("V2", "Lagos")>>

JoinProfile == CHOOSE p \in Profiles : p.vehicle_id = "V2"

\* deliveries.csv for the join: the vehicle_id cell varies, "NaN" is a
\* missing cell
JoinDeliveries ==
    UNION { { [i \in 1..n |-> DeliveryRow(i, JoinProfile, <<2024, 1, 31>>,
                                          "Lagos", v[i])] :
              v \in [1..n -> {"V1", "V2", "NaN"}] } : n \in 0..MaxJoinRows }

\* fleet.csv for the join: ids that match, match nothing, are missing or
\* repeat
JoinFleets ==
    UNION { { [i \in 1..n |-> VehicleRow(v[i], "Kano")] :
              v \in [1..n -> {"V1", "V9", "NaN"}] } : n \in 0..MaxFleet }

FileStatus == {"ok", "missing", "unreadable"}

---------------------------------------------------------------------------
(* load_and_prepare_data                                                   *)

\* pd.merge(..., on='vehicle_id', how='left'): the fleet rows whose key
\* equals the delivery's key (a missing key matches a missing key)
Matches(row, fleet) ==
    SelectSeq(fleet, LAMBDA v : v.vehicle_id = row.vehicle_id)

Joined(row, home) ==
    [delivery_id |-> row.delivery_id, vehicle_id |-> row.vehicle_id,
     date |-> row.date, city_x |-> row.city, city_y |-> home,
     planned_minutes |-> row.planned_minutes,
     actual_minutes |-> row.actual_minutes, on_time |-> row.on_time,
     fuel_cost |-> row.fuel_cost, other_cost |-> row.other_cost,
     distance_km |-> row.distance_km]

\* the rows a delivery row contributes to the left join
MergeRow(row, fleet) ==
    LET m == Matches(row, fleet)
    IN  IF m = <<>> THEN <<Joined(row, "NaN")>>
        ELSE [i \in 1..Len(m) |-> Joined(row, m[i].city)]

RECURSIVE Merge(_, _)
Merge(deliveries, fleet) ==
    IF deliveries = <<>> THEN <<>>
    ELSE MergeRow(Head(deliveries), fleet) \o Merge(Tail(deliveries), fleet)

\* rename + the derived columns of lines 61-66
Derive(r) ==
    LET total == r.fuel_cost + r.other_cost
    IN  [delivery_id |-> r.delivery_id, vehicle_id |-> r.vehicle_id,
         date |-> r.date, delivery_city |-> r.city_x,
         vehicle_home_city |-> r.city_y,
         planned_minutes |-> r.planned_minutes,
         actual_minutes |-> r.actual_minutes, on_time |-> r.on_time,
         fuel_cost |-> r.fuel_cost, other_cost |-> r.other_cost,
         distance_km |-> r.distance_km,
         delay_minutes |-> r.actual_minutes - r.planned_minutes,
         total_cost |-> total,
         cost_per_km |-> FDiv(Num(total), Num(r.distance_km)),
         fuel_cost_per_km |-> FDiv(Num(r.fuel_cost), Num(r.distance_km)),
         month_name |-> Strftime(r.date)]

Prepare(deliveries, fleet) ==
    LET m == Merge(deliveries, fleet)
    IN  [i \in 1..Len(m) |-> Derive(m[i])]

\* DataFrame.empty
DfEmpty(frame) == Len(frame) = 0

---------------------------------------------------------------------------
(* main: the filter stage (lines 156-166)                                  *)

CityOptions(frame) ==
    {"All"} \cup {frame[i].delivery_city : i \in 1..Len(frame)}

MonthOptions(frame) ==
    {"All"} \cup {frame[i].month_name : i \in 1..Len(frame)}

FilterCity(frame, city) ==
    IF city # "All"
    THEN SelectSeq(frame, LAMBDA r : r.delivery_city = city)
    ELSE frame

FilterMonth(frame, month) ==
    IF month # "All"
    THEN SelectSeq(frame, LAMBDA r : r.month_name = month)
    ELSE frame

\* variant: the month filter indexes the unfiltered frame again
ApplySelectionMonthOverrides(frame, city, month) ==
    IF month # "All" THEN FilterMonth(frame, month)
    ELSE FilterCity(frame, city)

\* lines 162-166: the city filter, then the month filter on its result
ApplySelection(frame, city, month) ==
    FilterMonth(FilterCity(frame, city), month)

---------------------------------------------------------------------------
(* calculate_kpis                                                          *)

RECURSIVE SetToSeq(_)
SetToSeq(S) ==
    IF S = {} THEN <<>>
    ELSE LET x == CHOOSE y \in S : TRUE IN <<x>> \o SetToSeq(S \ {x})

\* the keys of groupby('vehicle_id'): a missing key forms no group
\* (dropna = True, the pandas default)
VehicleKeys(frame) ==
    {frame[i].vehicle_id : i \in 1..Len(frame)} \ {"NaN"}

\* groupby('vehicle_id')['delivery_id'].count()
VehicleCounts(frame) ==
    { [vehicle_id |-> v,
       deliveries_count |->
           Len(SelectSeq(frame, LAMBDA r : r.vehicle_id = v))] :
      v \in VehicleKeys(frame) }

KpiNames ==
    {"Average Delay", "On-Time Rate", "Cost per Kilometer",
     "Deliveries per Vehicle", "Fuel Cost Ratio"}

CalculateKpis(frame) ==
    LET delay == Column(frame, LAMBDA r : Num(r.delay_minutes))
        ontime == Column(frame, LAMBDA r : Num(r.on_time))
        total == Column(frame, LAMBDA r : Num(r.total_cost))
        dist == Column(frame, LAMBDA r : Num(r.distance_km))
        fuel == Column(frame, LAMBDA r : Num(r.fuel_cost))
        counts == SetToSeq(VehicleCounts(frame))
    IN  [k \in KpiNames |->
          CASE k = "Average Delay" -> SeriesMean(delay)
            [] k = "On-Time Rate" ->
                 FMul(FDiv(SeriesSum(ontime), Num(Len(frame))), Hundred)
            [] k = "Cost per Kilometer" ->
                 FDiv(SeriesSum(total), SeriesSum(dist))
            [] k = "Deliveries per Vehicle" ->
                 SeriesMean(Column(counts, LAMBDA g : Num(g.deliveries_count)))
            [] k = "Fuel Cost Ratio" ->
                 FMul(FDiv(SeriesSum(fuel), SeriesSum(total)), Hundred)]

---------------------------------------------------------------------------
(* set_index('date').resample('M'): one bin per calendar month from the    *)
(* month of the earliest date to the month of the latest date.             *)

MinOf(S) == CHOOSE x \in S : \A y \in S : x <= y
MaxOf(S) == CHOOSE x \in S : \A y \in S : x >= y

\* variant: rows binned by the month of the year alone
BinOfMonthNumber(r) == r.date[2] - 1

\* the calendar month a row is binned into
BinOf(r) == MonthIndex(r.date)

RECURSIVE SortedSeq(_)
SortedSeq(S) ==
    IF S = {} THEN <<>>
    ELSE <<MinOf(S)>> \o SortedSeq(S \ {MinOf(S)})

\* variant: bins only for the months that have rows (a groupby)
MonthBinsNonEmpty(frame) ==
    SortedSeq({BinOf(frame[i]) : i \in 1..Len(frame)})

MonthBins(frame) ==
    IF DfEmpty(frame) THEN <<>>
    ELSE LET idx == {BinOf(frame[i]) : i \in 1..Len(frame)}
             lo == MinOf(idx)
             hi == MaxOf(idx)
         IN  [i \in 1..(hi - lo + 1) |-> lo + i - 1]

BinRows(frame, bin) == SelectSeq(frame, LAMBDA r : BinOf(r) = bin)

\* df_with_ratio['fuel_cost_ratio'] (line 174)
RowFuelCostRatio(r) ==
    FMul(FDiv(Num(r.fuel_cost), Num(r.total_cost)), Hundred)

MomColumns ==
    {"avg_delay", "on_time_rate", "cost_per_km", "deliveries_per_vehicle",
     "fuel_cost_ratio"}

\* monthly_summary (lines 176-182)
MonthlySummary(frame) ==
    LET bins == MonthBins(frame)
    IN  [i \in 1..Len(bins) |->
          LET rows == BinRows(frame, bins[i])
          IN  [date |-> MonthEnd(bins[i]),
               avg_delay |->
                   SeriesMean(Column(rows, LAMBDA r : Num(r.delay_minutes))),
               on_time_rate |->
                   SeriesMean(Column(rows, LAMBDA r : Num(r.on_time))),
               cost_per_km |->
                   SeriesMean(Column(rows, LAMBDA r : r.cost_per_km)),
               deliveries_per_vehicle |-> Num(Len(rows)),
               fuel_cost_ratio |->
                   SeriesMean(Column(rows, RowFuelCostRatio))]]

\* variant: no guard on a zero previous value
MoMUnguarded(summary, col) ==
    IF Len(summary) >= 2
    THEN LET prev == summary[Len(summary) - 1][col]
             curr == summary[Len(summary)][col]
         IN  FMul(FDiv(FSub(curr, prev), prev), Hundred)
    ELSE Zero

\* variant: no delta (NaN) when a previous bucket is missing
MoMNoFallback(summary, col) ==
    IF Len(summary) >= 2
    THEN LET prev == summary[Len(summary) - 1][col]
             curr == summary[Len(summary)][col]
         IN  IF prev # Zero
             THEN FMul(FDiv(FSub(curr, prev), prev), Hundred)
             ELSE Zero
    ELSE NaN

\* the body of the loop of lines 185-191 for one column
MoM(summary, col) ==
    IF Len(summary) >= 2
    THEN LET prev == summary[Len(summary) - 1][col]
             curr == summary[Len(summary)][col]
         IN  IF prev # Zero
             THEN FMul(FDiv(FSub(curr, prev), prev), Hundred)
             ELSE Zero
    ELSE Zero

MomValues(summary) == [col \in MomColumns |-> MoM(summary, col)]

---------------------------------------------------------------------------
(* prepare_chart_data                                                      *)

CityKeys(frame) == {frame[i].delivery_city : i \in 1..Len(frame)}

CityRows(frame, city) == SelectSeq(frame, LAMBDA r : r.delivery_city = city)

DelayByCity(frame) ==
    { [delivery_city |-> c,
       delay_minutes |->
           SeriesMean(Column(CityRows(frame, c),
                             LAMBDA r : Num(r.delay_minutes)))] :
      c \in CityKeys(frame) }

CostTimeCity(frame) ==
    { [delivery_city |-> c,
       cost_per_km |->
           SeriesMean(Column(CityRows(frame, c), LAMBDA r : r.cost_per_km)),
       on_time_rate |->
           FMul(SeriesMean(Column(CityRows(frame, c),
                                  LAMBDA r : Num(r.on_time))), Hundred)] :
      c \in CityKeys(frame) }

MonthlyTrend(frame) ==
    LET bins == MonthBins(frame)
    IN  [i \in 1..Len(bins) |->
          LET rows == BinRows(frame, bins[i])
          IN  [date |-> MonthEnd(bins[i]),
               avg_delay |->
                   SeriesMean(Column(rows, LAMBDA r : Num(r.delay_minutes))),
               cost_per_km |->
                   SeriesMean(Column(rows, LAMBDA r : r.cost_per_km)),
               month_name |-> Strftime(MonthEnd(bins[i]))]]

---------------------------------------------------------------------------
(* The state machine.                                                      *)

NoKpis == [k \in KpiNames |-> NaN]
NoMom == [c \in MomColumns |-> NaN]

Init ==
    /\ \/ deliveries_csv \in PipelineDeliveries /\ fleet_csv = Registry
       \/ deliveries_csv \in JoinDeliveries /\ fleet_csv \in JoinFleets
    /\ pc = "start"
    /\ read_status = <<"unread", "unread">>
    /\ error_shown = FALSE
    /\ loaded_df = <<>>
    /\ df = <<>>
    /\ selected_city = "All"
    /\ selected_month = "All"
    /\ stages = {}
    /\ kpis = NoKpis
    /\ monthly_summary = <<>>
    /\ mom_values = NoMom
    /\ delay_by_city = {}
    /\ cost_time_city = {}
    /\ deliveries_per_vehicle_data = {}
    /\ monthly_trend = <<>>

\* variant: only the read of deliveries.csv is looked at
ReadOutcomeDeliveriesOnly(deliveries_status, fleet_status) ==
    deliveries_status

\* what reading the two files ends in: deliveries.csv is read first
ReadOutcome(deliveries_status, fleet_status) ==
    IF deliveries_status # "ok" THEN deliveries_status ELSE fleet_status

\* main calls load_and_prepare_data (line 149).  A FileNotFoundError is
\* caught: st.error and an empty frame.  Any other error of read_csv is
\* not caught and leaves main.
LoadAndPrepareData ==
    /\ pc = "start"
    /\ \E ds \in FileStatus, fs \in FileStatus :
         LET outcome == ReadOutcome(ds, fs)
             frame == IF outcome = "ok"
                      THEN Prepare(deliveries_csv, fleet_csv) ELSE <<>>
         IN  /\ read_status' = <<ds, fs>>
             /\ pc' = IF outcome = "unreadable" THEN "raised" ELSE "loaded"
             /\ error_shown' = (outcome = "missing")
             /\ loaded_df' = frame
             /\ df' = frame
    /\ UNCHANGED <<deliveries_csv, fleet_csv, selected_city, selected_month,
                   stages, kpis, monthly_summary, mom_values, delay_by_city,
                   cost_time_city, deliveries_per_vehicle_data, monthly_trend>>

\* if df.empty: return (lines 150-151)
ReturnOnEmpty ==
    /\ pc = "loaded"
    /\ DfEmpty(df)
    /\ pc' = "returned"
    /\ UNCHANGED <<deliveries_csv, fleet_csv, read_status, error_shown, loaded_df, df,
                   selected_city, selected_month, stages, kpis,
                   monthly_summary, mom_values, delay_by_city, cost_time_city,
                   deliveries_per_vehicle_data, monthly_trend>>

\* the two radio selections and the filters (lines 156-166)
ApplyFilters ==
    /\ pc = "loaded"
    /\ ~DfEmpty(df)
    /\ \E city \in CityOptions(df), month \in MonthOptions(df) :
         /\ selected_city' = city
         /\ selected_month' = month
         /\ df' = ApplySelection(df, city, month)
    /\ stages' = stages \cup {"filter"}
    /\ pc' = "filtered"
    /\ UNCHANGED <<deliveries_csv, fleet_csv, read_status, error_shown, loaded_df, kpis,
                   monthly_summary, mom_values, delay_by_city, cost_time_city,
                   deliveries_per_vehicle_data, monthly_trend>>

\* calculate_kpis, the monthly summary and the deltas (lines 169-191)
ComputeKpis ==
    /\ pc = "filtered"
    /\ kpis' = CalculateKpis(df)
    /\ monthly_summary' = MonthlySummary(df)
    /\ mom_values' = MomValues(MonthlySummary(df))
    /\ stages' = stages \cup {"kpis", "mom"}
    /\ pc' = "kpis"
    /\ UNCHANGED <<deliveries_csv, fleet_csv, read_status, error_shown, loaded_df, df,
                   selected_city, selected_month, delay_by_city,
                   cost_time_city, deliveries_per_vehicle_data, monthly_trend>>

\* prepare_chart_data (line 228)
PrepareChartData ==
    /\ pc = "kpis"
    /\ delay_by_city' = DelayByCity(df)
    /\ cost_time_city' = CostTimeCity(df)
    /\ deliveries_per_vehicle_data' = VehicleCounts(df)
    /\ monthly_trend' = MonthlyTrend(df)
    /\ stages' = stages \cup {"breakdown", "trend"}
    /\ pc' = "done"
    /\ UNCHANGED <<deliveries_csv, fleet_csv, read_status, error_shown, loaded_df, df,
                   selected_city, selected_month, kpis, monthly_summary,
                   mom_values>>

Next ==
    \/ LoadAndPrepareData
    \/ ReturnOnEmpty
    \/ ApplyFilters
    \/ ComputeKpis
    \/ PrepareChartData

Spec == Init /\ [][Next]_vars

---------------------------------------------------------------------------
(* Properties.                                                             *)

\* the load returned the joined frame (no file was missing or unreadable)
LoadSucceeded == read_status = <<"ok", "ok">>

AllStages == {"filter", "kpis", "mom", "breakdown", "trend"}

SameMonth(d1, d2) == d1[1] = d2[1] /\ d1[2] = d2[2]

\* the number of rows of a frame dated in the calendar month of a date
RowsInMonth(frame, date) ==
    Cardinality({i \in 1..Len(frame) : SameMonth(frame[i].date, date)})

RECURSIVE SumCounts(_)
SumCounts(S) ==
    IF S = {} THEN 0
    ELSE LET g == CHOOSE x \in S : TRUE
         IN  g.deliveries_count + SumCounts(S \ {g})

\* C1: the enriched table returned by load_and_prepare_data has exactly as
\* many rows as the delivery table, whatever the vehicle table contains.
C1_JoinPreservesRowCount ==
    LoadSucceeded => Len(loaded_df) = Len(deliveries_csv)

\* C2: if either source table is missing or unreadable, the loader signals
\* the failure (st.error or an exception leaving main) and main performs
\* none of the downstream computations: it can only return.
C2_FailedLoadShortCircuits ==
    (pc # "start" /\ ~LoadSucceeded) =>
        /\ error_shown \/ pc = "raised"
        /\ pc \in {"loaded", "returned", "raised"}
        /\ stages = {}
        /\ df = <<>>
        /\ kpis = NoKpis /\ mom_values = NoMom /\ monthly_summary = <<>>
        /\ delay_by_city = {} /\ cost_time_city = {}
        /\ deliveries_per_vehicle_data = {} /\ monthly_trend = <<>>
        /\ ~ENABLED ApplyFilters
        /\ ~ENABLED ComputeKpis
        /\ ~ENABLED PrepareChartData
        /\ pc = "loaded" => ENABLED ReturnOnEmpty

C2_Witness ==
    /\ pc = "returned"
    /\ read_status = <<"ok", "missing">>
    /\ error_shown
    /\ Len(deliveries_csv) > 0

\* the delta of one column agrees with 100 * (curr - prev) / prev, guarded
DeltaRelation(prev, curr, delta) ==
    /\ prev = Zero => delta = Zero
    /\ (prev # Zero /\ IsFinite(prev) /\ IsFinite(curr)) =>
           /\ IsFinite(delta)
           /\ FMul(delta, prev) = FMul(Hundred, FSub(curr, prev))
    /\ (IsNaN(prev) \/ (prev # Zero /\ IsNaN(curr))) => IsNaN(delta)

\* the last two buckets are consecutive in time, the later one last
LastTwoChronological(summary) ==
    LET n == Len(summary)
    IN  MonthIndex(summary[n - 1].date) < MonthIndex(summary[n].date)

\* C3 as claimed: each delta is 100 * (current - previous) / previous over
\* the two most recent buckets, 0 when previous is 0, and never infinite.
C3_DeltaNeverInfinite ==
    ("mom" \in stages /\ Len(monthly_summary) >= 2) =>
        /\ LastTwoChronological(monthly_summary)
        /\ \A col \in MomColumns :
             LET n == Len(monthly_summary)
             IN  /\ DeltaRelation(monthly_summary[n - 1][col],
                                  monthly_summary[n][col], mom_values[col])
                 /\ ~IsInf(mom_values[col])

\* C3 amended: the same relation; a zero previous never gives an infinite
\* delta, and a delta is infinite only when the current bucket's value is
\* itself infinite (a mean over a row with distance_km = 0).
C3_GuardedDelta ==
    ("mom" \in stages /\ Len(monthly_summary) >= 2) =>
        /\ LastTwoChronological(monthly_summary)
        /\ \A col \in MomColumns :
             LET n == Len(monthly_summary)
             IN  /\ DeltaRelation(monthly_summary[n - 1][col],
                                  monthly_summary[n][col], mom_values[col])
                 /\ IsInf(mom_values[col]) =>
                        /\ IsInf(monthly_summary[n][col])
                        /\ IsFinite(monthly_summary[n - 1][col])
                        /\ monthly_summary[n - 1][col] # Zero

\* previous = 0 and current = 5 give 0
C3_Witness ==
    /\ "mom" \in stages
    /\ Len(monthly_summary) >= 2
    /\ monthly_summary[Len(monthly_summary) - 1]["avg_delay"] = Zero
    /\ monthly_summary[Len(monthly_summary)]["avg_delay"] = Num(5)
    /\ mom_values["avg_delay"] = Zero

\* C4: with fewer than two monthly buckets (the filtered table is empty or
\* lies within one calendar month) every delta is exactly 0 and main goes on.
C4_FewerThanTwoBuckets ==
    ("mom" \in stages /\ Len(monthly_summary) < 2) =>
        /\ \A col \in MomColumns : mom_values[col] = Zero
        /\ pc \in {"kpis", "done"}

C4_Witness ==
    /\ "mom" \in stages
    /\ Len(monthly_summary) = 1
    /\ Len(df) = 2
    /\ \A col \in MomColumns : mom_values[col] = Zero

\* a row matches the selection
Selected(r) ==
    /\ selected_city = "All" \/ r.delivery_city = selected_city
    /\ selected_month = "All" \/ r.month_name = selected_month

\* C5: a selection matching zero rows raises nothing: the filtered table is
\* empty, every KPI is undefined (NaN), every delta is 0, and the KPI,
\* delta, breakdown and trend outputs are all produced (empty).
C5_EmptySelection ==
    ("filter" \in stages /\ DfEmpty(SelectSeq(loaded_df, Selected))) =>
        /\ df = <<>>
        /\ pc \in {"filtered", "kpis", "done"}
        /\ "kpis" \in stages => \A k \in KpiNames : IsNaN(kpis[k])
        /\ "mom" \in stages =>
               /\ monthly_summary = <<>>
               /\ \A col \in MomColumns : mom_values[col] = Zero
        /\ pc = "done" =>
               /\ stages = AllStages
               /\ delay_by_city = {} /\ cost_time_city = {}
               /\ deliveries_per_vehicle_data = {} /\ monthly_trend = <<>>

C5_Witness ==
    /\ pc = "done"
    /\ Len(loaded_df) > 0
    /\ selected_city # "All" /\ selected_month # "All"
    /\ df = <<>>
    /\ \A k \in KpiNames : IsNaN(kpis[k])

\* C6: the filtered table is exactly the rows matching every criterion,
\* "All" filters nothing, and month-then-city equals city-then-month.
C6_FilterExactAndCommutes ==
    "filter" \in stages =>
        /\ df = SelectSeq(loaded_df, Selected)
        /\ df = FilterCity(FilterMonth(loaded_df, selected_month),
                           selected_city)
        /\ FilterCity(loaded_df, "All") = loaded_df
        /\ FilterMonth(loaded_df, "All") = loaded_df

C6_Witness ==
    /\ pc = "filtered"
    /\ selected_city # "All" /\ selected_month # "All"
    /\ Len(df) = 1
    /\ \E i \in 1..Len(loaded_df) :
         loaded_df[i].delivery_city = selected_city
         /\ loaded_df[i].month_name # selected_month

\* buckets strictly ascending by year, then month
Chronological(buckets) ==
    \A i, j \in 1..Len(buckets) :
        i < j => \/ buckets[i].date[1] < buckets[j].date[1]
                 \/ /\ buckets[i].date[1] = buckets[j].date[1]
                    /\ buckets[i].date[2] < buckets[j].date[2]

\* every row of the frame has a bucket of its own year and month
Covers(buckets, frame) ==
    \A k \in 1..Len(frame) :
        \E i \in 1..Len(buckets) : SameMonth(buckets[i].date, frame[k].date)

\* C7: a bucket aggregates exactly the records of one year and month, and
\* the buckets are in strictly ascending order of that month.
C7_CalendarMonthBuckets ==
    /\ "mom" \in stages =>
          /\ Chronological(monthly_summary)
          /\ Covers(monthly_summary, df)
          /\ \A i \in 1..Len(monthly_summary) :
               monthly_summary[i].deliveries_per_vehicle =
                   Num(RowsInMonth(df, monthly_summary[i].date))
    /\ "trend" \in stages =>
          /\ Chronological(monthly_trend)
          /\ Covers(monthly_trend, df)
          /\ Len(monthly_trend) = Len(monthly_summary)
          /\ \A i \in 1..Len(monthly_trend) :
               /\ monthly_trend[i].date = monthly_summary[i].date
               /\ monthly_trend[i].avg_delay = monthly_summary[i].avg_delay

\* 2024-01-31 and 2024-02-01 in two buckets, ordered Jan then Feb although
\* "Feb 2024" sorts before "Jan 2024" as a string
C7_Witness ==
    /\ pc = "done"
    /\ Len(df) = 2
    /\ {df[1].date, df[2].date} = {<<2024, 1, 31>>, <<2024, 2, 1>>}
    /\ Len(monthly_trend) = 2
    /\ monthly_trend[1].month_name = "Jan 2024"
    /\ monthly_trend[2].month_name = "Feb 2024"
    /\ monthly_summary[1].deliveries_per_vehicle = Num(1)
    /\ monthly_summary[2].deliveries_per_vehicle = Num(1)

\* C8: the per-vehicle delivery counts sum to the number of rows of the
\* table they were computed from.
C8_CountsSumToRows ==
    "breakdown" \in stages =>
        SumCounts(deliveries_per_vehicle_data) = Len(df)

\* C9 as claimed: every bucket of the monthly series holds at least one
\* record, so previous and current are always defined.
C9_EveryBucketHasRecords ==
    "mom" \in stages =>
        \A i \in 1..Len(monthly_summary) :
            /\ RowsInMonth(df, monthly_summary[i].date) >= 1
            /\ monthly_summary[i].deliveries_per_vehicle # Zero
            /\ ~IsNaN(monthly_summary[i].avg_delay)

\* C9 amended: the series has one bucket for every calendar month from the
\* earliest to the latest month with records; the first and the last hold
\* records, a month in between without records is an empty bucket (count 0,
\* means undefined), so current is the latest month with data and previous
\* is the calendar month just before it, which may be empty.
C9_ConsecutiveMonths ==
    ("mom" \in stages /\ Len(monthly_summary) >= 1) =>
        LET n == Len(monthly_summary)
        IN  /\ RowsInMonth(df, monthly_summary[1].date) >= 1
            /\ RowsInMonth(df, monthly_summary[n].date) >= 1
            /\ \A k \in 1..Len(df) :
                 /\ MonthIndex(monthly_summary[1].date) <= MonthIndex(df[k].date)
                 /\ MonthIndex(df[k].date) <= MonthIndex(monthly_summary[n].date)
            /\ \A i \in 1..(n - 1) :
                 MonthIndex(monthly_summary[i + 1].date) =
                     MonthIndex(monthly_summary[i].date) + 1
            /\ \A i \in 1..n :
                 RowsInMonth(df, monthly_summary[i].date) = 0 =>
                     /\ monthly_summary[i].deliveries_per_vehicle = Zero
                     /\ IsNaN(monthly_summary[i].avg_delay)
                     /\ IsNaN(monthly_summary[i].on_time_rate)
                     /\ IsNaN(monthly_summary[i].cost_per_km)
                     /\ IsNaN(monthly_summary[i].fuel_cost_ratio)

\* the previous bucket is an empty month: its means are undefined and the
\* delta of the average delay is undefined too
C9_Witness ==
    /\ "mom" \in stages
    /\ Len(monthly_summary) >= 2
    /\ RowsInMonth(df, monthly_summary[Len(monthly_summary) - 1].date) = 0
    /\ IsNaN(monthly_summary[Len(monthly_summary) - 1].avg_delay)
    /\ IsNaN(mom_values["avg_delay"])
    /\ mom_values["deliveries_per_vehicle"] = Zero

\* C10: with a month selected, the filtered table lies within one calendar
\* month, the series has at most one bucket and every delta is 0.
C10_MonthFilterZeroDeltas ==
    ("filter" \in stages /\ selected_month # "All") =>
        /\ \A i, j \in 1..Len(df) : SameMonth(df[i].date, df[j].date)
        /\ "mom" \in stages =>
               /\ Len(monthly_summary) <= 1
               /\ \A col \in MomColumns : mom_values[col] = Zero

\* the month before the selected one has records with other values
C10_Witness ==
    /\ "mom" \in stages
    /\ selected_month = "Feb 2024"
    /\ Len(df) = 1
    /\ Len(monthly_summary) = 1
    /\ \E i \in 1..Len(loaded_df) :
         /\ loaded_df[i].date = <<2024, 1, 31>>
         /\ loaded_df[i].delay_minutes # df[1].delay_minutes
    /\ \A col \in MomColumns : mom_values[col] = Zero

====
